---------------------------- MODULE Spec2Model ----------------------------
(***************************************************************************)
(* A model of website/utils.py (ottertune): the unit-suffix conversion,    *)
(* the per-type value preprocessing, the catalog reconciliation            *)
(* (extract_valid_keys), the Postgres adapter and the data aggregation.    *)
(*                                                                         *)
(* The code is a library of pure functions.  A behaviour of the model is   *)
(* one call: the initial state holds the function called (fn) and its      *)
(* arguments (args), the single step applies the function and stores what  *)
(* it returns or raises in ret.                                            *)
(*                                                                         *)
(* Python strings are sequences of one-character strings, Python integers  *)
(* (arbitrary precision) are sign-magnitude records over base-1024 limbs,  *)
(* Python dictionaries are functions, and an iteration over a dictionary   *)
(* visits its keys in an order the model chooses freely.                   *)
(***************************************************************************)
EXTENDS Integers, Sequences, FiniteSets, TLC

VARIABLES fn, args, ret, pc

vars == <<fn, args, ret, pc>>

(***************************************************************************)
(* Bounds of the model.                                                    *)
(***************************************************************************)
MaxAmount == 11      \* amounts written before a suffix: 1..MaxAmount
MaxPairs == 3        \* length of the enumerated conversion systems
MaxRawLen == 3       \* length of the enumerated raw integer strings
MaxCatalog == 2      \* descriptors of a catalog given to extract_valid_keys
MaxInput == 2        \* keys of a mapping given to extract_valid_keys
MaxEntries == 2      \* entries a scope reports to parse_dbms_metrics
MaxMetricCatalog == 2 \* descriptors of a metric catalog
MaxExecutionTime == 3 \* execution times: 1..MaxExecutionTime
MaxResults == 2      \* observations given to aggregate_data
MaxRows == 3         \* rows of a matrix given to combine_duplicate_rows

(***************************************************************************)
(* Python strings.                                                         *)
(***************************************************************************)
Digits == <<"0", "1", "2", "3", "4", "5", "6", "7", "8", "9">>

IsDigit(c) == \E i \in DOMAIN Digits : Digits[i] = c

DigitVal(c) == (CHOOSE i \in DOMAIN Digits : Digits[i] = c) - 1

\* str.endswith
EndsWith(value, suffix) ==
    /\ Len(suffix) <= Len(value)
    /\ SubSeq(value, Len(value) - Len(suffix) + 1, Len(value)) = suffix

\* value[:-n]; Python reads value[:-0] as value[:0], the empty string
DropLast(value, n) ==
    IF n = 0 THEN << >> ELSE SubSeq(value, 1, Len(value) - n)

\* the strings of length at most n over the characters of alphabet
StringsUpTo(alphabet, n) == UNION {[1..k -> alphabet] : k \in 0..n}

(***************************************************************************)
(* Python integers: [neg, mag], mag the base-1024 limbs, least significant *)
(* first, without leading zero limbs; zero is [neg |-> FALSE, mag |-> <<>>]*)
(***************************************************************************)
RECURSIVE MulAdd(_, _, _)
\* the limbs of a * limbs + carry, for naturals a and carry
MulAdd(a, limbs, carry) ==
    IF limbs = << >>
    THEN IF carry = 0 THEN << >>
         ELSE <<carry % 1024>> \o MulAdd(a, << >>, carry \div 1024)
    ELSE LET p == a * Head(limbs) + carry
         IN  <<p % 1024>> \o MulAdd(a, Tail(limbs), p \div 1024)

RECURSIVE Strip(_)
Strip(limbs) ==
    IF limbs # << >> /\ limbs[Len(limbs)] = 0
    THEN Strip(SubSeq(limbs, 1, Len(limbs) - 1))
    ELSE limbs

RECURSIVE MagAdd(_, _, _)
MagAdd(x, y, carry) ==
    IF x = << >> /\ y = << >>
    THEN IF carry = 0 THEN << >> ELSE <<carry>>
    ELSE LET a == IF x = << >> THEN 0 ELSE Head(x)
             b == IF y = << >> THEN 0 ELSE Head(y)
             s == a + b + carry
         IN  <<s % 1024>> \o MagAdd(IF x = << >> THEN x ELSE Tail(x),
                                    IF y = << >> THEN y ELSE Tail(y),
                                    s \div 1024)

RECURSIVE MagMul(_, _)
MagMul(x, y) ==
    IF x = << >> THEN << >>
    ELSE MagAdd(MulAdd(Head(x), y, 0), <<0>> \o MagMul(Tail(x), y), 0)

PyInt(neg, mag) ==
    LET m == Strip(mag) IN [neg |-> neg /\ m # << >>, mag |-> m]

\* the Python integer of a model integer
Py(n) == IF n < 0 THEN PyInt(TRUE, MulAdd(1, << >>, -n))
         ELSE PyInt(FALSE, MulAdd(1, << >>, n))

\* x * y
PyMul(x, y) == PyInt(x.neg # y.neg, MagMul(x.mag, y.mag))

RECURSIVE PyPow(_, _)
\* x ** e
PyPow(x, e) == IF e = 0 THEN Py(1) ELSE PyMul(x, PyPow(x, e - 1))

RECURSIVE MagOfDigits(_, _)
\* the magnitude of a digit string, read left to right onto acc
MagOfDigits(s, acc) ==
    IF s = << >> THEN acc
    ELSE MagOfDigits(Tail(s), MulAdd(10, acc, DigitVal(Head(s))))

RECURSIVE Str(_)
\* str(n) of a natural number
Str(n) == IF n < 10 THEN <<Digits[n + 1]>>
          ELSE Str(n \div 10) \o <<Digits[(n % 10) + 1]>>

AllDigits(s) == \A i \in DOMAIN s : IsDigit(s[i])

\* int(s) raises ValueError unless s is an optional "-" and digits
IsIntLiteral(s) ==
    LET body == IF s # << >> /\ Head(s) = "-" THEN Tail(s) ELSE s
    IN  body # << >> /\ AllDigits(body)

\* int(s) of an integer literal
IntOf(s) ==
    IF Head(s) = "-" THEN PyInt(TRUE, MagOfDigits(Tail(s), << >>))
    ELSE PyInt(FALSE, MagOfDigits(s, << >>))

\* float(s) raises ValueError unless s is an optional "-", digits with at
\* most one "." among them, and at least one digit
IsFloatLiteral(s) ==
    LET body == IF s # << >> /\ Head(s) = "-" THEN Tail(s) ELSE s
    IN  /\ \A i \in DOMAIN body : IsDigit(body[i]) \/ body[i] = "."
        /\ Cardinality({i \in DOMAIN body : body[i] = "."}) <= 1
        /\ \E i \in DOMAIN body : IsDigit(body[i])

\* int(float(s)) of a float literal: the value truncated towards zero
TruncOf(s) ==
    LET body == IF Head(s) = "-" THEN Tail(s) ELSE s
        dots == {i \in DOMAIN body : body[i] = "."}
        whole == IF dots = {} THEN body
                 ELSE SubSeq(body, 1, (CHOOSE i \in dots : TRUE) - 1)
    IN  PyInt(Head(s) = "-", MagOfDigits(whole, << >>))

(***************************************************************************)
(* What a call returns or raises.                                          *)
(***************************************************************************)
Ok(v) == [kind |-> "ok", value |-> v]
Raise(e) == [kind |-> e]
None == [kind |-> "None"]
NoReturn == [kind |-> "pending"]

(***************************************************************************)
(* ConversionUtil.get_raw_size                                             *)
(***************************************************************************)
RECURSIVE get_raw_size_unscaled(_, _)
\* get_raw_size returning the amount without multiplying it by the factor
get_raw_size_unscaled(value, system) ==
    IF system = << >> THEN None
    ELSE LET suffix == Head(system)[2]
             prefix == DropLast(value, Len(suffix))
         IN  IF EndsWith(value, suffix)
             THEN IF Len(value) = Len(suffix)
                  THEN Ok(Py(1))
                  ELSE IF IsIntLiteral(prefix)
                       THEN Ok(IntOf(prefix))
                       ELSE Raise("ValueError")
             ELSE get_raw_size_unscaled(value, Tail(system))

RECURSIVE get_raw_size(_, _)
get_raw_size(value, system) ==
    IF system = << >> THEN None
    ELSE LET factor == Head(system)[1]
             suffix == Head(system)[2]
             prefix == DropLast(value, Len(suffix))
         IN  IF EndsWith(value, suffix)
             THEN IF Len(value) = Len(suffix)
                  THEN Ok(PyMul(Py(1), factor))
                  ELSE IF IsIntLiteral(prefix)
                       THEN Ok(PyMul(IntOf(prefix), factor))
                       ELSE Raise("ValueError")
             ELSE get_raw_size(value, Tail(system))

(***************************************************************************)
(* PostgresUtilImpl: the unit tables                                       *)
(***************************************************************************)
POSTGRES_BYTES_SYSTEM ==
    << <<PyPow(Py(1024), 5), <<"P", "B">> >>,
       <<PyPow(Py(1024), 4), <<"T", "B">> >>,
       <<PyPow(Py(1024), 3), <<"G", "B">> >>,
       <<PyPow(Py(1024), 2), <<"M", "B">> >>,
       <<PyPow(Py(1024), 1), <<"k", "B">> >>,
       <<PyPow(Py(1024), 0), <<"B">> >> >>

POSTGRES_TIME_SYSTEM ==
    << <<PyMul(PyMul(PyMul(Py(1000), Py(60)), Py(60)), Py(24)), <<"d">> >>,
       <<PyMul(PyMul(Py(1000), Py(60)), Py(60)), <<"h">> >>,
       <<PyMul(Py(1000), Py(60)), <<"m", "i", "n">> >>,
       <<Py(1), <<"m", "s">> >>,
       <<Py(1000), <<"s">> >> >>

\* the members of KnobUnitType the code names, and one it does not
KnobUnitTypes == {"BYTES", "MILLISECONDS", "OTHER"}

(***************************************************************************)
(* DBMSUtilImpl.preprocess_integer                                         *)
(***************************************************************************)
base_preprocess_integer(int_value, param_info) ==
    IF IsIntLiteral(int_value) THEN Ok(IntOf(int_value))
    ELSE IF IsFloatLiteral(int_value) THEN Ok(TruncOf(int_value))
    ELSE Raise("ValueError")

InvalidIntegerFormat(name, int_value) ==
    [kind |-> "InvalidIntegerFormat", name |-> name, value |-> int_value]

(***************************************************************************)
(* PostgresUtilImpl.preprocess_integer                                     *)
(***************************************************************************)
\* except ValueError: the value is read with the table of the unit
ExceptValueError(base, int_value, param_info) ==
    IF base.kind = "ValueError"
    THEN IF param_info.unit = "BYTES"
         THEN get_raw_size(int_value, POSTGRES_BYTES_SYSTEM)
         ELSE IF param_info.unit = "MILLISECONDS"
              THEN get_raw_size(int_value, POSTGRES_TIME_SYSTEM)
              ELSE Raise("UnknownUnitType")
    ELSE base

\* if converted is None: raise
IfNoneInvalid(converted, int_value, param_info) ==
    IF converted.kind = "None"
    THEN InvalidIntegerFormat(param_info.name, int_value)
    ELSE converted

preprocess_integer(int_value, param_info) ==
    IfNoneInvalid(
        ExceptValueError(base_preprocess_integer(int_value, param_info),
                         int_value, param_info),
        int_value, param_info)

(***************************************************************************)
(* The calls of the conversion specification.                              *)
(***************************************************************************)
SuffixesOf(system) == {system[i][2] : i \in DOMAIN system}

GenFactors == {Py(1), Py(1000)}
GenSuffixes == {<<"s">>, <<"m", "s">>, <<"B">>}

\* the conversion systems of at most MaxPairs pairs with pairwise
\* different suffixes, and the two tables
Systems ==
    {sys \in UNION {[1..k -> GenFactors \X GenSuffixes] : k \in 1..MaxPairs} :
        \A i, j \in DOMAIN sys : i # j => sys[i][2] # sys[j][2]}
        \cup {POSTGRES_BYTES_SYSTEM, POSTGRES_TIME_SYSTEM}

AllSuffixes ==
    GenSuffixes \cup SuffixesOf(POSTGRES_BYTES_SYSTEM)
        \cup SuffixesOf(POSTGRES_TIME_SYSTEM)

\* a suffix alone, or an amount written before it
SizeValues ==
    AllSuffixes \cup {Str(a) \o s : a \in 1..MaxAmount, s \in AllSuffixes}

RawAlphabet == {"1", "5", ".", "-", "k", "B", "m", "s"}

RawValues ==
    StringsUpTo(RawAlphabet, MaxRawLen) \cup SizeValues
        \cup {<<"1", ".", "5", "k", "B">>}

InitConv ==
    /\ pc = "called"
    /\ ret = NoReturn
    /\ \/ /\ fn = "get_raw_size"
          /\ args \in [value : SizeValues, system : Systems]
       \/ /\ fn = "preprocess_integer"
          /\ args \in [int_value : RawValues,
                       param_info : [name : {"p"}, unit : KnobUnitTypes]]

GetRawSize ==
    /\ pc = "called"
    /\ fn = "get_raw_size"
    /\ ret' = get_raw_size(args.value, args.system)
    /\ pc' = "returned"
    /\ UNCHANGED <<fn, args>>

PreprocessInteger ==
    /\ pc = "called"
    /\ fn = "preprocess_integer"
    /\ ret' = preprocess_integer(args.int_value, args.param_info)
    /\ pc' = "returned"
    /\ UNCHANGED <<fn, args>>

NextConv == GetRawSize \/ PreprocessInteger

SpecConv == InitConv /\ [][NextConv]_vars

(***************************************************************************)
(* Claims about the conversion (checked under SpecConv).                   *)
(***************************************************************************)
RECURSIVE MagLeq(_, _)
\* x <= y for magnitudes
MagLeq(x, y) ==
    IF Len(x) # Len(y) THEN Len(x) < Len(y)
    ELSE IF x = << >> THEN TRUE
    ELSE IF x[Len(x)] # y[Len(y)] THEN x[Len(x)] < y[Len(y)]
    ELSE MagLeq(SubSeq(x, 1, Len(x) - 1), SubSeq(y, 1, Len(y) - 1))

\* the factors strictly decrease along the system
LargestFirst(system) ==
    \A i, j \in DOMAIN system :
        i < j => ~MagLeq(system[i][1].mag, system[j][1].mag)

\* no suffix is empty or holds a digit, and none is a trailing substring
\* of the suffix of a later pair
SuffixSafe(system) ==
    \A i \in DOMAIN system :
        /\ system[i][2] # << >>
        /\ \A k \in DOMAIN system[i][2] : ~IsDigit(system[i][2][k])
        /\ \A j \in DOMAIN system :
               i < j => ~EndsWith(system[j][2], system[i][2])

GetRawSizeReturned == pc = "returned" /\ fn = "get_raw_size"

\* C2 as stated: for a system ordered from the largest factor to the
\* smallest, get_raw_size(str(amount) + suffix, system) returns
\* amount * factor for every pair of the system and every positive amount.
C2_LargestFirstRoundTrip ==
    (GetRawSizeReturned /\ LargestFirst(args.system)) =>
        \A i \in DOMAIN args.system : \A a \in 1..MaxAmount :
            args.value = Str(a) \o args.system[i][2] =>
                ret = Ok(PyMul(Py(a), args.system[i][1]))

\* C2 amended: for a system whose suffixes are non-empty and digit-free
\* and in which no suffix is a trailing substring of a later pair's suffix
\* (whatever the order of the factors), get_raw_size(str(amount) + suffix,
\* system) returns amount * factor for every pair and positive amount.
C2_SuffixSafeRoundTrip ==
    (GetRawSizeReturned /\ SuffixSafe(args.system)) =>
        \A i \in DOMAIN args.system : \A a \in 1..MaxAmount :
            args.value = Str(a) \o args.system[i][2] =>
                ret = Ok(PyMul(Py(a), args.system[i][1]))

\* a two-digit amount of seconds read by the Postgres time table, whose
\* "ms" pair comes before its "s" pair
C2_Witness ==
    /\ GetRawSizeReturned
    /\ args.system = POSTGRES_TIME_SYSTEM
    /\ SuffixSafe(args.system)
    /\ args.value = Str(MaxAmount) \o <<"s">>
    /\ ret = Ok(PyMul(Py(MaxAmount), Py(1000)))

PreprocessIntegerReturned == pc = "returned" /\ fn = "preprocess_integer"

UnitSystem(unit) ==
    IF unit = "BYTES" THEN POSTGRES_BYTES_SYSTEM ELSE POSTGRES_TIME_SYSTEM

\* C9 as stated: when both the integer parse and the float parse of the
\* raw value fail, preprocess_integer of the Postgres adapter has exactly
\* three outcomes: amount * factor when the unit is BYTES or MILLISECONDS
\* and a suffix of its table matches; the invalid-integer-format error
\* naming the parameter and the raw value when none matches; the
\* unknown-unit-type error for any other unit.
C9_ThreeOutcomes ==
    (/\ PreprocessIntegerReturned
     /\ ~IsIntLiteral(args.int_value)
     /\ ~IsFloatLiteral(args.int_value)) =>
        LET v == args.int_value
            unit == args.param_info.unit
            system == UnitSystem(unit)
            matching == {i \in DOMAIN system : EndsWith(v, system[i][2])}
        IN  IF unit \in {"BYTES", "MILLISECONDS"}
            THEN IF matching # {}
                 THEN ret.kind = "ok"
                 ELSE ret = InvalidIntegerFormat(args.param_info.name, v)
            ELSE ret = Raise("UnknownUnitType")

(***************************************************************************)
(* Python values other than integers, tagged with their type, and          *)
(* dictionaries (functions from keys, which are strings).                  *)
(***************************************************************************)
PyStr(chars) == [t |-> "str", v |-> chars]
PyList(elems) == [t |-> "list", v |-> elems]
PyNone == [t |-> "none"]

EmptyDict == [k \in {} |-> PyNone]

\* d[key] = value
Put(d, key, value) ==
    [k \in DOMAIN d \cup {key} |-> IF k = key THEN value ELSE d[k]]

\* the orders in which an iteration may visit the members of S
Orders(S) ==
    {o \in [1..Cardinality(S) -> S] :
        \A i, j \in DOMAIN o : i # j => o[i] # o[j]}

UpperCase == <<"A", "B", "C", "D", "E", "F", "G", "H", "I", "J", "K", "L", "M",
               "N", "O", "P", "Q", "R", "S", "T", "U", "V", "W", "X", "Y", "Z">>
LowerCase == <<"a", "b", "c", "d", "e", "f", "g", "h", "i", "j", "k", "l", "m",
               "n", "o", "p", "q", "r", "s", "t", "u", "v", "w", "x", "y", "z">>

\* str.lower
Lower(chars) ==
    [i \in DOMAIN chars |->
        IF \E u \in DOMAIN UpperCase : UpperCase[u] = chars[i]
        THEN LowerCase[CHOOSE u \in DOMAIN UpperCase : UpperCase[u] = chars[i]]
        ELSE chars[i]]

(***************************************************************************)
(* DBMSUtilImpl.extract_valid_keys                                         *)
(***************************************************************************)
\* {k.name.lower(): k for k in official_config}: a later descriptor
\* replaces an earlier one of the same lowercased name
LowercaseDict(official_config) ==
    [l \in {Lower(official_config[i].name) : i \in DOMAIN official_config} |->
        LET last == CHOOSE i \in DOMAIN official_config :
                        /\ Lower(official_config[i].name) = l
                        /\ \A j \in DOMAIN official_config :
                               Lower(official_config[j].name) = l => j <= i
        IN  official_config[last]]

\* ScanKey storing the value under the given spelling of the key
ScanKeyGivenSpelling(acc, k, v, lowercase_dict) ==
    LET lower_k2 == Lower(k)
    IN  IF lower_k2 \in DOMAIN lowercase_dict
        THEN LET true_k == lowercase_dict[lower_k2].name
             IN  [valid_dict |-> Put(acc.valid_dict, k, v),
                  diffs |-> IF k # true_k
                            THEN Append(acc.diffs,
                                        <<"miscapitalized_key", true_k, k, v>>)
                            ELSE acc.diffs]
        ELSE [valid_dict |-> acc.valid_dict,
              diffs |-> Append(acc.diffs, <<"extra_key", PyNone, k, v>>)]

\* the body of the loop over the input: one key k with its value v
ScanKey(acc, k, v, lowercase_dict) ==
    LET lower_k2 == Lower(k)
    IN  IF lower_k2 \in DOMAIN lowercase_dict
        THEN LET true_k == lowercase_dict[lower_k2].name
             IN  [valid_dict |-> Put(acc.valid_dict, true_k, v),
                  diffs |-> IF k # true_k
                            THEN Append(acc.diffs,
                                        <<"miscapitalized_key", true_k, k, v>>)
                            ELSE acc.diffs]
        ELSE [valid_dict |-> acc.valid_dict,
              diffs |-> Append(acc.diffs, <<"extra_key", PyNone, k, v>>)]

RECURSIVE ScanInput(_, _, _, _)
\* for k, v in idict.iteritems(), in the order the iteration takes
ScanInput(acc, order, idict, lowercase_dict) ==
    IF order = << >> THEN acc
    ELSE ScanInput(ScanKey(acc, Head(order), idict[Head(order)], lowercase_dict),
                   Tail(order), idict, lowercase_dict)

\* the body of the loop over the catalog: one lowercased name k
FillKey(acc, k, lowercase_idict_keys, lowercase_dict, default) ==
    IF k \notin lowercase_idict_keys
    THEN LET v == lowercase_dict[k]
         IN  [valid_dict |-> Put(acc.valid_dict, v.name,
                                 IF default # PyNone THEN default ELSE v.default),
              diffs |-> Append(acc.diffs, <<"missing_key", v.name, PyNone, PyNone>>)]
    ELSE acc

RECURSIVE FillMissing(_, _, _, _, _)
\* for k, v in lowercase_dict.iteritems(), in the order the iteration takes
FillMissing(acc, order, lowercase_idict_keys, lowercase_dict, default) ==
    IF order = << >> THEN acc
    ELSE FillMissing(FillKey(acc, Head(order), lowercase_idict_keys,
                             lowercase_dict, default),
                     Tail(order), lowercase_idict_keys, lowercase_dict, default)

\* the missing keys are filled only when the input has fewer keys than
\* the catalog has lowercased names
FillGuard(idict, lowercase_dict) ==
    Cardinality(DOMAIN idict) < Cardinality(DOMAIN lowercase_dict)

\* the statements after the loop over the input: the two assertions and,
\* between them, the filling of the missing keys
AfterScan(scanned, idict, lowercase_dict, official_config, default, fill_order) ==
    IF Cardinality(DOMAIN idict) > Cardinality(DOMAIN lowercase_dict)
    THEN IF ~(Len(scanned.diffs) > 0) THEN Raise("AssertionError")
         ELSE IF Cardinality(DOMAIN scanned.valid_dict) # Len(official_config)
              THEN Raise("AssertionError")
              ELSE [kind |-> "ok", valid_dict |-> scanned.valid_dict,
                    diffs |-> scanned.diffs]
    ELSE LET filled ==
                 IF FillGuard(idict, lowercase_dict)
                 THEN FillMissing(scanned, fill_order,
                                  {Lower(k) : k \in DOMAIN idict},
                                  lowercase_dict, default)
                 ELSE scanned
         IN  IF Cardinality(DOMAIN filled.valid_dict) # Len(official_config)
             THEN Raise("AssertionError")
             ELSE [kind |-> "ok", valid_dict |-> filled.valid_dict,
                   diffs |-> filled.diffs]

extract_valid_keys(idict, official_config, default, order, fill_order) ==
    AfterScan(ScanInput([valid_dict |-> EmptyDict, diffs |-> << >>],
                        order, idict, LowercaseDict(official_config)),
              idict, LowercaseDict(official_config), official_config, default,
              fill_order)

(***************************************************************************)
(* The calls of the reconciliation specification.                          *)
(***************************************************************************)
InputKeys == {<<"a">>, <<"A">>, <<"b">>, <<"B">>, <<"x">>}
CatalogNames == {<<"a">>, <<"A">>, <<"b">>, <<"B">>}
InputValues == {PyStr(<<"1">>), PyStr(<<"2">>)}
DescriptorDefault == PyStr(<<"d">>)

\* the catalogs: at most MaxCatalog descriptors of different names
Catalogs ==
    {c \in UNION {[1..n -> [name : CatalogNames, default : {DescriptorDefault}]] :
                     n \in 0..MaxCatalog} :
        \A i, j \in DOMAIN c : i # j => c[i].name # c[j].name}

\* the input mappings: at most MaxInput keys
InputDicts ==
    UNION {[K -> InputValues] :
             K \in {S \in SUBSET InputKeys : Cardinality(S) <= MaxInput}}

\* no two names of the catalog are equal ignoring case
CaseDistinct(official_config) ==
    \A i, j \in DOMAIN official_config :
        i # j => Lower(official_config[i].name) # Lower(official_config[j].name)

InitKeys ==
    /\ pc = "called"
    /\ ret = NoReturn
    /\ fn = "extract_valid_keys"
    /\ args \in [idict : InputDicts, official_config : Catalogs,
                 default : {PyNone, PyStr(<<"0">>)}]

ExtractValidKeys ==
    /\ pc = "called"
    /\ fn = "extract_valid_keys"
    /\ \E order \in Orders(DOMAIN args.idict) :
         \E fill_order \in Orders(DOMAIN LowercaseDict(args.official_config)) :
            ret' = extract_valid_keys(args.idict, args.official_config,
                                      args.default, order, fill_order)
    /\ pc' = "returned"
    /\ UNCHANGED <<fn, args>>

NextKeys == ExtractValidKeys

SpecKeys == InitKeys /\ [][NextKeys]_vars

\* the same calls, on catalogs without two names equal ignoring case
InitKeysCaseDistinct == InitKeys /\ CaseDistinct(args.official_config)

SpecKeysCaseDistinct == InitKeysCaseDistinct /\ [][NextKeys]_vars

(***************************************************************************)
(* Claims about extract_valid_keys.                                        *)
(***************************************************************************)
ExtractReturned == pc = "returned" /\ fn = "extract_valid_keys"

CanonicalNames(official_config) ==
    {official_config[i].name : i \in DOMAIN official_config}

\* how many diffs of the sequence satisfy Test
DiffsOfKind(diffs, kind) == {j \in DOMAIN diffs : diffs[j][1] = kind}

Occurrences(diffs, diff) == Cardinality({j \in DOMAIN diffs : diffs[j] = diff})

\* C1 as stated (checked on catalogs without names equal ignoring case,
\* under SpecKeysCaseDistinct): extract_valid_keys never raises, the keys
\* of the validated mapping are exactly the canonical names, and every
\* canonical name without a case-insensitive match among the input keys
\* gets one MISSING_KEY diff and the value `default` if given, else the
\* descriptor's default.
C1_FullyPopulated ==
    ExtractReturned =>
        /\ ret.kind = "ok"
        /\ DOMAIN ret.valid_dict = CanonicalNames(args.official_config)
        /\ \A i \in DOMAIN args.official_config :
              LET d == args.official_config[i]
              IN  Lower(d.name) \notin {Lower(k) : k \in DOMAIN args.idict} =>
                    /\ Occurrences(ret.diffs,
                                   <<"missing_key", d.name, PyNone, PyNone>>) = 1
                    /\ ret.valid_dict[d.name] =
                          IF args.default # PyNone THEN args.default
                          ELSE d.default

\* the ways to read the input keys as a one-to-one, case-varied spelling
\* of the canonical names
Spellings(idict, official_config) ==
    {f \in [DOMAIN idict -> CanonicalNames(official_config)] :
        /\ \A k \in DOMAIN idict : Lower(f[k]) = Lower(k)
        /\ \A k1, k2 \in DOMAIN idict : k1 # k2 => f[k1] # f[k2]
        /\ \A n \in CanonicalNames(official_config) :
              \E k \in DOMAIN idict : f[k] = n}

\* the result the claim describes, for the spelling f
SpelledResult(f) ==
    /\ ret.kind = "ok"
    /\ DOMAIN ret.valid_dict = CanonicalNames(args.official_config)
    /\ DiffsOfKind(ret.diffs, "extra_key") = {}
    /\ DiffsOfKind(ret.diffs, "missing_key") = {}
    /\ Cardinality(DiffsOfKind(ret.diffs, "miscapitalized_key")) =
          Cardinality({k \in DOMAIN args.idict : k # f[k]})
    /\ \A k \in DOMAIN args.idict :
          /\ ret.valid_dict[f[k]] = args.idict[k]
          /\ Occurrences(ret.diffs,
                         <<"miscapitalized_key", f[k], k, args.idict[k]>>) =
                IF k # f[k] THEN 1 ELSE 0

\* C8 as stated: when the input keys are a one-to-one, case-varied spelling
\* of the canonical names, there is no EXTRA_KEY and no MISSING_KEY diff,
\* exactly one MISCAPITALIZED_KEY diff (canonical name, given name, value)
\* for each key spelled differently and none for the others, and every
\* canonical name maps to the value given under its input spelling.
C8_CaseVariedSpelling ==
    (ExtractReturned /\ Spellings(args.idict, args.official_config) # {}) =>
        \E f \in Spellings(args.idict, args.official_config) : SpelledResult(f)

\* C8 amended: the same, for a catalog that has no two canonical names
\* equal ignoring case.
C8_CaseVariedSpellingCaseDistinct ==
    (/\ ExtractReturned
     /\ CaseDistinct(args.official_config)
     /\ Spellings(args.idict, args.official_config) # {}) =>
        \A f \in Spellings(args.idict, args.official_config) : SpelledResult(f)

\* a catalog of two names, one given in exact case and one not
C8_Witness ==
    /\ ExtractReturned
    /\ CaseDistinct(args.official_config)
    /\ Len(args.official_config) = 2
    /\ \E f \in Spellings(args.idict, args.official_config) :
          /\ \E k \in DOMAIN args.idict : k # f[k]
          /\ \E k \in DOMAIN args.idict : k = f[k]
    /\ Len(ret.diffs) = 1

(***************************************************************************)
(* PostgresUtilImpl.parse_dbms_metrics                                     *)
(***************************************************************************)
PyNum(n) == [t |-> "int", v |-> n]

\* '{}.{}'.format(view_name, mname)
FlatKey(view_name, mname) == view_name \o <<".">> \o mname

RECURSIVE FlattenEntries(_, _, _)
\* for entry in entries: every value of the entry is appended to the list
\* of its key (the keys of one entry are different, so the order in which
\* the entry is read does not show)
FlattenEntries(valid_metrics, view_name, entries) ==
    IF entries = << >> THEN valid_metrics
    ELSE LET entry == Head(entries)
             keys == {FlatKey(view_name, mname) : mname \in DOMAIN entry}
             added ==
                 [key \in DOMAIN valid_metrics \cup keys |->
                    LET old == IF key \in DOMAIN valid_metrics
                               THEN valid_metrics[key] ELSE << >>
                        here == {mname \in DOMAIN entry :
                                    FlatKey(view_name, mname) = key}
                    IN  IF here = {} THEN old
                        ELSE Append(old, entry[CHOOSE mname \in here : TRUE])]
         IN  FlattenEntries(added, view_name, Tail(entries))

RECURSIVE FlattenViews(_, _, _)
\* for view_name, entries in metrics.iteritems()
FlattenViews(valid_metrics, view_order, metrics) ==
    IF view_order = << >> THEN valid_metrics
    ELSE FlattenViews(FlattenEntries(valid_metrics, Head(view_order),
                                     metrics[Head(view_order)]),
                      Tail(view_order), metrics)

\* {m.name: m for m in official_metrics}
OfficialMetricMap(official_metrics) ==
    [n \in {official_metrics[i].name : i \in DOMAIN official_metrics} |->
        LET last == CHOOSE i \in DOMAIN official_metrics :
                        /\ official_metrics[i].name = n
                        /\ \A j \in DOMAIN official_metrics :
                               official_metrics[j].name = n => j <= i
        IN  official_metrics[last]]

RECURSIVE ToInt(_)
\* the model integer of a magnitude
ToInt(mag) == IF mag = << >> THEN 0 ELSE Head(mag) + 1024 * ToInt(Tail(mag))

\* str(n) of a Python integer that is not negative
PyStrOf(n) == PyStr(Str(ToInt(n.mag)))

RECURSIVE SumInts(_)
\* sum(mvalues) of Python integers that are not negative
SumInts(ints) ==
    IF ints = << >> THEN Py(0)
    ELSE PyInt(FALSE, MagAdd(Head(ints).mag, SumInts(Tail(ints)).mag, 0))

\* mvalues[0]: of a list its first element, of a string its first character
First(mvalues) ==
    IF mvalues.t = "list" THEN mvalues.v[1] ELSE PyStr(<<mvalues.v[1]>>)

\* the value of the COUNTER branch when every collected value is null
AllNullCounter == PyNum(Py(0))

\* the body of the loop that combines the values of one metric
CombineValues(metric, mvalues) ==
    IF metric.metric_type = "INFO" \/ Len(mvalues.v) = 1
    THEN Ok(First(mvalues))
    ELSE IF metric.metric_type = "COUNTER"
         THEN LET kept == SelectSeq(mvalues.v, LAMBDA v : v # PyNone)
                  ints == [i \in DOMAIN kept |-> IntOf(kept[i].v)]
              IN  IF Len(ints) = 0 THEN Ok(AllNullCounter)
                  ELSE Ok(PyStrOf(SumInts(ints)))
         ELSE Raise("InvalidMetricType")

\* every list of raw values as a Python list
AsLists(collected) == [key \in DOMAIN collected |-> PyList(collected[key])]

\* the loop that combines the values, over what extract_valid_keys gave
CombineAll(extracted, official_metric_map) ==
    IF extracted.kind # "ok" THEN extracted
    ELSE LET combined ==
                 [mname \in DOMAIN extracted.valid_dict |->
                    CombineValues(official_metric_map[mname],
                                  extracted.valid_dict[mname])]
         IN  IF \E mname \in DOMAIN combined : combined[mname].kind # "ok"
             THEN Raise("InvalidMetricType")
             ELSE [kind |-> "ok",
                   valid_dict |-> [mname \in DOMAIN combined |->
                                     combined[mname].value],
                   diffs |-> extracted.diffs]

parse_dbms_metrics(metrics, official_metrics, view_order, order, fill_order) ==
    CombineAll(
        extract_valid_keys(
            AsLists(FlattenViews(EmptyDict, view_order, metrics)),
            official_metrics, PyStr(<<"0">>), order, fill_order),
        OfficialMetricMap(official_metrics))

(***************************************************************************)
(* The calls of the metric specification.                                  *)
(***************************************************************************)
MetricValues == {PyStr(<<"2">>), PyNone}

\* the entries of a scope: mappings from some of the names to values
EntriesOver(mnames) ==
    UNION {[1..n -> UNION {[K -> MetricValues] : K \in SUBSET mnames}] :
             n \in 0..MaxEntries}

MetricInputs ==
    {[view \in {<<"v">>, <<"w">>} |-> IF view = <<"v">> THEN ev ELSE ew] :
        ev \in EntriesOver({<<"m">>, <<"n">>}),
        ew \in {<< >>, <<[mname \in {<<"m">>} |-> PyStr(<<"2">>)]>>}}

MetricNames == {<<"v", ".", "m">>, <<"v", ".", "n">>, <<"w", ".", "m">>}
MetricTypes == {"COUNTER", "INFO", "STATISTICS"}

MetricCatalogs ==
    {c \in UNION {[1..n -> [name : MetricNames, metric_type : MetricTypes,
                            default : {DescriptorDefault}]] :
                     n \in 0..MaxMetricCatalog} :
        \A i, j \in DOMAIN c : i # j => c[i].name # c[j].name}

InitMetrics ==
    /\ pc = "called"
    /\ ret = NoReturn
    /\ fn = "parse_dbms_metrics"
    /\ args \in [metrics : MetricInputs, official_metrics : MetricCatalogs]

ParseDbmsMetrics ==
    /\ pc = "called"
    /\ fn = "parse_dbms_metrics"
    /\ \E view_order \in Orders(DOMAIN args.metrics) :
         LET keys == DOMAIN FlattenViews(EmptyDict, view_order, args.metrics)
         IN  \E order \in Orders(keys) :
               \E fill_order \in
                     Orders(DOMAIN LowercaseDict(args.official_metrics)) :
                  ret' = parse_dbms_metrics(args.metrics, args.official_metrics,
                                            view_order, order, fill_order)
    /\ pc' = "returned"
    /\ UNCHANGED <<fn, args>>

NextMetrics == ParseDbmsMetrics

SpecMetrics == InitMetrics /\ [][NextMetrics]_vars

(***************************************************************************)
(* Claims about parse_dbms_metrics.                                        *)
(***************************************************************************)
ParseMetricsReturned == pc = "returned" /\ fn = "parse_dbms_metrics"

\* the scopes and names whose flattened key is the metric name
SourcesOf(name) ==
    {p \in {<<view, mname>> : view \in DOMAIN args.metrics,
                              mname \in {<<"m">>, <<"n">>}} :
        p[1] \o <<".">> \o p[2] = name}

\* the values collected for a metric name, in the order of the entries
CollectedFor(name) ==
    IF SourcesOf(name) = {} THEN << >>
    ELSE LET p == CHOOSE q \in SourcesOf(name) : TRUE
             entries == args.metrics[p[1]]
             having == SelectSeq(entries, LAMBDA e : p[2] \in DOMAIN e)
         IN  [i \in DOMAIN having |-> having[i][p[2]]]

RECURSIVE SumOfStrings(_)
\* the sum of the non-null values, each a string of digits
SumOfStrings(values) ==
    IF values = << >> THEN 0
    ELSE (IF Head(values) = PyNone THEN 0
          ELSE ToInt(IntOf(Head(values).v).mag)) + SumOfStrings(Tail(values))

\* C10 as stated: parse_dbms_metrics returns one value per catalog metric:
\* the value verbatim for an INFO metric or a single collected value, the
\* string of the sum of the non-null values for a COUNTER with several
\* values (the string of zero when all are null), the default "0" for a
\* metric absent from the input; another metric type with several values
\* is a fatal error.
C10_OneValuePerMetric ==
    ParseMetricsReturned =>
        LET catalog == args.official_metrics
            fatal == \E i \in DOMAIN catalog :
                        /\ catalog[i].metric_type \notin {"INFO", "COUNTER"}
                        /\ Len(CollectedFor(catalog[i].name)) > 1
        IN  IF fatal THEN ret = Raise("InvalidMetricType")
            ELSE /\ ret.kind = "ok"
                 /\ DOMAIN ret.valid_dict = CanonicalNames(catalog)
                 /\ \A i \in DOMAIN catalog :
                       LET values == CollectedFor(catalog[i].name)
                           got == ret.valid_dict[catalog[i].name]
                       IN  IF values = << >> THEN got = PyStr(<<"0">>)
                           ELSE IF catalog[i].metric_type = "INFO"
                                   \/ Len(values) = 1
                                THEN got = values[1]
                                ELSE /\ got.t = "str"
                                     /\ got = PyStr(Str(SumOfStrings(values)))

(***************************************************************************)
(* DBMSUtilImpl: the per-type preprocessing                                *)
(***************************************************************************)
\* the members of BooleanType
BooleanType(name) == [t |-> "BooleanType", v |-> name]

\* a Python float, as the fraction num / den in lowest terms
RECURSIVE Gcd(_, _)
Gcd(a, b) == IF b = 0 THEN a ELSE Gcd(b, a % b)

PyFloat(num, den) ==
    LET g == Gcd(IF num < 0 THEN -num ELSE num, den)
    IN  [t |-> "float", num |-> num \div g, den |-> den \div g]

RECURSIVE Pow10(_)
Pow10(n) == IF n = 0 THEN 1 ELSE 10 * Pow10(n - 1)

\* float(s) of a float literal
FloatOf(s) ==
    LET body == IF Head(s) = "-" THEN Tail(s) ELSE s
        dots == {i \in DOMAIN body : body[i] = "."}
        dot == IF dots = {} THEN Len(body) + 1 ELSE CHOOSE i \in dots : TRUE
        digits == SubSeq(body, 1, dot - 1) \o SubSeq(body, dot + 1, Len(body))
        places == IF dots = {} THEN 0 ELSE Len(body) - dot
        n == ToInt(MagOfDigits(digits, << >>))
    IN  PyFloat(IF Head(s) = "-" THEN -n ELSE n, Pow10(places))

RECURSIVE Split(_, _)
\* str.split(sep), sep one character
Split(chars, sep) ==
    LET seps == {i \in DOMAIN chars : chars[i] = sep}
    IN  IF seps = {} THEN <<chars>>
        ELSE LET i == CHOOSE j \in seps : \A k \in seps : j <= k
             IN  <<SubSeq(chars, 1, i - 1)>>
                     \o Split(SubSeq(chars, i + 1, Len(chars)), sep)

preprocess_bool(bool_value, param_info) ==
    IF Lower(bool_value) = <<"o", "n">>
    THEN Ok(BooleanType("TRUE")) ELSE Ok(BooleanType("FALSE"))

\* list.index counting the positions from one
IndexOfOneBased(enumvals, enum_value) ==
    CHOOSE i \in DOMAIN enumvals :
        /\ enumvals[i] = enum_value
        /\ \A j \in DOMAIN enumvals : enumvals[j] = enum_value => i <= j

\* list.index: the zero-based position of the first occurrence
IndexOf(enumvals, enum_value) ==
    (CHOOSE i \in DOMAIN enumvals :
        /\ enumvals[i] = enum_value
        /\ \A j \in DOMAIN enumvals : enumvals[j] = enum_value => i <= j) - 1

preprocess_enum(enum_value, param_info) ==
    LET enumvals == Split(param_info.enumvals, ",")
    IN  IF \E i \in DOMAIN enumvals : enumvals[i] = enum_value
        THEN Ok(PyNum(Py(IndexOf(enumvals, enum_value))))
        ELSE [kind |-> "InvalidEnumValue", name |-> param_info.name,
              value |-> enum_value]

preprocess_real(real_value, param_info) ==
    IF IsFloatLiteral(real_value) THEN Ok(FloatOf(real_value))
    ELSE Raise("ValueError")

\* PostgresUtilImpl.preprocess_string
preprocess_string(string_value, param_info) == Raise("ImplementMe")

preprocess_timestamp(timestamp_value, param_info) ==
    Raise("NotImplementedError")

(***************************************************************************)
(* DBMSUtilImpl.preprocess_dbms_params                                     *)
(***************************************************************************)
\* a Python integer returned as a value of a mapping
AsNum(r) == IF r.kind = "ok" THEN Ok(PyNum(r.value)) ELSE r

\* if prep_value is None: raise
IfNoneNull(prep) ==
    IF prep.kind = "ok" /\ prep.value = PyNone
    THEN Raise("NullParameterValue")
    ELSE prep

\* the dispatch on the type of the descriptor
Dispatch(pvalue, pinfo) ==
    CASE pinfo.vartype = "BOOL" -> preprocess_bool(pvalue, pinfo)
      [] pinfo.vartype = "ENUM" -> preprocess_enum(pvalue, pinfo)
      [] pinfo.vartype = "INTEGER" -> AsNum(preprocess_integer(pvalue, pinfo))
      [] pinfo.vartype = "REAL" -> preprocess_real(pvalue, pinfo)
      [] pinfo.vartype = "STRING" -> preprocess_string(pvalue, pinfo)
      [] pinfo.vartype = "TIMESTAMP" -> preprocess_timestamp(pvalue, pinfo)
      [] OTHER -> Raise("UnknownVariableType")

\* the body of the loop: the preprocessed value of one descriptor
PreprocessParam(tunable_params, pinfo) ==
    IF pinfo.tunable # TRUE THEN Raise("AssertionError")
    ELSE IF pinfo.name \notin DOMAIN tunable_params THEN Raise("KeyError")
    ELSE IfNoneNull(Dispatch(tunable_params[pinfo.name], pinfo))

RECURSIVE PreprocessParams(_, _, _)

\* param_data[pinfo.name] = prep_value, and the rest of the loop
StoreParam(prep, param_data, tunable_params, catalog) ==
    IF prep.kind # "ok" THEN prep
    ELSE PreprocessParams(Put(param_data, Head(catalog).name, prep.value),
                          tunable_params, Tail(catalog))

\* for pinfo in tunable_param_catalog
PreprocessParams(param_data, tunable_params, catalog) ==
    IF catalog = << >> THEN Ok(param_data)
    ELSE StoreParam(PreprocessParam(tunable_params, Head(catalog)),
                    param_data, tunable_params, catalog)

preprocess_dbms_params(tunable_params, tunable_param_catalog) ==
    PreprocessParams(EmptyDict, tunable_params, tunable_param_catalog)

(***************************************************************************)
(* DBMSUtilImpl.preprocess_dbms_metrics                                    *)
(***************************************************************************)
\* converted / execution_time without the conversion to float: the
\* integer division of Python 2
FloorRate(converted, execution_time) ==
    PyFloat(ToInt(converted.mag) \div execution_time, 1)

\* float(converted) / execution_time, of a converted that is not negative
Rate(converted, execution_time) ==
    PyFloat(ToInt(converted.mag), execution_time)

\* metric_data[minfo.name] = float(converted) / execution_time
RateOf(converted, execution_time) ==
    IF converted.kind # "ok" THEN converted
    ELSE Ok(Rate(converted.value, execution_time))

\* the body of the loop: the value of one metric
PreprocessMetric(numeric_metrics, minfo, execution_time) ==
    IF minfo.metric_type = "INFO" THEN Raise("AssertionError")
    ELSE IF minfo.name \notin DOMAIN numeric_metrics THEN Raise("KeyError")
    ELSE IF minfo.metric_type = "COUNTER"
         THEN RateOf(preprocess_integer(numeric_metrics[minfo.name], minfo),
                     execution_time)
         ELSE Raise("UnknownMetricType")

RECURSIVE PreprocessMetrics(_, _, _, _)

\* the value is stored, and the rest of the loop
StoreMetric(prep, metric_data, numeric_metrics, catalog, execution_time) ==
    IF prep.kind # "ok" THEN prep
    ELSE PreprocessMetrics(Put(metric_data, Head(catalog).name, prep.value),
                           numeric_metrics, Tail(catalog), execution_time)

\* for minfo in numeric_metric_catalog
PreprocessMetrics(metric_data, numeric_metrics, catalog, execution_time) ==
    IF catalog = << >> THEN Ok(metric_data)
    ELSE StoreMetric(PreprocessMetric(numeric_metrics, Head(catalog),
                                      execution_time),
                     metric_data, numeric_metrics, catalog, execution_time)

\* metric_data.update({k: float(v) for k, v in external_metrics.iteritems()})
UpdateExternal(looped, external_metrics) ==
    IF looped.kind # "ok" THEN looped
    ELSE Ok([k \in DOMAIN looped.value \cup DOMAIN external_metrics |->
               IF k \in DOMAIN external_metrics
               THEN PyFloat(external_metrics[k], 1)
               ELSE looped.value[k]])

preprocess_dbms_metrics(numeric_metrics, numeric_metric_catalog, external_metrics, execution_time) ==
    IF Cardinality(DOMAIN numeric_metrics) # Len(numeric_metric_catalog)
    THEN Raise("MetricCountMismatch")
    ELSE UpdateExternal(PreprocessMetrics(EmptyDict, numeric_metrics,
                                          numeric_metric_catalog,
                                          execution_time),
                        external_metrics)

(***************************************************************************)
(* The calls of the preprocessing specification.                           *)
(***************************************************************************)
ParamNames == {<<"p">>, <<"q">>}
VarTypes == {"BOOL", "ENUM", "INTEGER", "REAL", "STRING", "TIMESTAMP", "OTHER"}

ParamInfo(name, vartype, unit, tunable) ==
    [name |-> name, vartype |-> vartype, unit |-> unit,
     enumvals |-> <<"a", ",", "b">>, tunable |-> tunable]

\* the descriptors: every type, INTEGER with a unit of bytes and with
\* another unit, and a descriptor that is not tunable
ParamInfos ==
    {ParamInfo(name, vartype, "BYTES", TRUE) :
        name \in ParamNames, vartype \in VarTypes}
    \cup {ParamInfo(name, "INTEGER", "OTHER", TRUE) : name \in ParamNames}
    \cup {ParamInfo(name, "BOOL", "BYTES", FALSE) : name \in ParamNames}

ParamCatalogs ==
    {c \in UNION {[1..n -> ParamInfos] : n \in 0..Cardinality(ParamNames)} :
        \A i, j \in DOMAIN c : i # j => c[i].name # c[j].name}

RawParamValues ==
    {<<"o", "n">>, <<"O", "n">>, <<"o", "f", "f">>, <<"a">>, <<"b">>,
     <<"4", "2">>, <<"4", ".", "7">>, <<"8", "k", "B">>}

\* the raw mappings: values for some of the names and for a key "z" that
\* no catalog names
RawParams ==
    {raw \in UNION {[K -> RawParamValues] :
                      K \in SUBSET (ParamNames \cup {<<"z">>})} :
        <<"z">> \in DOMAIN raw => raw[<<"z">>] = <<"4", "2">>}

NumericMetricNames == {<<"m">>, <<"n">>}

NumericMetricCatalogs ==
    {c \in UNION {[1..n -> [name : NumericMetricNames,
                            metric_type : MetricTypes]] :
                     n \in 0..Cardinality(NumericMetricNames)} :
        \A i, j \in DOMAIN c : i # j => c[i].name # c[j].name}

RawMetricValues == {<<"1", "2", "0">>, <<"7">>, <<"4", ".", "7">>}

RawMetrics ==
    {raw \in UNION {[K -> RawMetricValues] :
                      K \in SUBSET (NumericMetricNames \cup {<<"z">>})} :
        <<"z">> \in DOMAIN raw => raw[<<"z">>] = <<"7">>}

ExternalMetrics == UNION {[K -> {3}] : K \in SUBSET {<<"e">>, <<"m">>}}

InitPrep ==
    /\ pc = "called"
    /\ ret = NoReturn
    /\ \/ /\ fn = "preprocess_dbms_params"
          /\ args \in [tunable_params : RawParams,
                       tunable_param_catalog : ParamCatalogs]
       \/ /\ fn = "preprocess_dbms_metrics"
          /\ args \in [numeric_metrics : RawMetrics,
                       numeric_metric_catalog : NumericMetricCatalogs,
                       external_metrics : ExternalMetrics,
                       execution_time : 1..MaxExecutionTime]

PreprocessDbmsParams ==
    /\ pc = "called"
    /\ fn = "preprocess_dbms_params"
    /\ ret' = preprocess_dbms_params(args.tunable_params,
                                     args.tunable_param_catalog)
    /\ pc' = "returned"
    /\ UNCHANGED <<fn, args>>

PreprocessDbmsMetrics ==
    /\ pc = "called"
    /\ fn = "preprocess_dbms_metrics"
    /\ ret' = preprocess_dbms_metrics(args.numeric_metrics,
                                      args.numeric_metric_catalog,
                                      args.external_metrics,
                                      args.execution_time)
    /\ pc' = "returned"
    /\ UNCHANGED <<fn, args>>

NextPrep == PreprocessDbmsParams \/ PreprocessDbmsMetrics

SpecPrep == InitPrep /\ [][NextPrep]_vars

(***************************************************************************)
(* Claims about the preprocessing (checked under SpecPrep).                *)
(***************************************************************************)
ParamsReturned == pc = "returned" /\ fn = "preprocess_dbms_params"

\* the raw values that are integers, with the integer each one denotes
\* (a size in bytes for a descriptor whose unit is bytes)
IntegerReading(v, unit) ==
    CASE v = <<"4", "2">> -> <<42>>
      [] v = <<"4", ".", "7">> -> <<4>>
      [] v = <<"8", "k", "B">> /\ unit = "BYTES" -> <<8192>>
      [] OTHER -> << >>

\* the position of a raw value in the enum domain "a,b"
EnumReading(v) ==
    CASE v = <<"a">> -> <<0>>
      [] v = <<"b">> -> <<1>>
      [] OTHER -> << >>

Parseable(v, pinfo) ==
    CASE pinfo.vartype = "BOOL" -> TRUE
      [] pinfo.vartype = "ENUM" -> EnumReading(v) # << >>
      [] pinfo.vartype = "INTEGER" -> IntegerReading(v, pinfo.unit) # << >>
      [] pinfo.vartype = "REAL" -> v \in {<<"4", "2">>, <<"4", ".", "7">>}
      [] OTHER -> FALSE

\* C3: for a catalog of tunable BOOL, ENUM, INTEGER and REAL descriptors and
\* a raw mapping with a parseable value for each catalog name (and maybe
\* other keys), preprocess_dbms_params returns a mapping whose keys are
\* exactly the catalog's names, a BOOL being TRUE iff its raw value is "on"
\* ignoring case, an ENUM the zero-based position of its raw value in the
\* enum domain, an INTEGER its parsed integer.
C3_ParamsPreprocessed ==
    (/\ ParamsReturned
     /\ \A i \in DOMAIN args.tunable_param_catalog :
           LET pinfo == args.tunable_param_catalog[i]
           IN  /\ pinfo.tunable
               /\ pinfo.name \in DOMAIN args.tunable_params
               /\ Parseable(args.tunable_params[pinfo.name], pinfo)) =>
        /\ ret.kind = "ok"
        /\ DOMAIN ret.value = CanonicalNames(args.tunable_param_catalog)
        /\ Cardinality(DOMAIN ret.value) = Len(args.tunable_param_catalog)
        /\ \A i \in DOMAIN args.tunable_param_catalog :
              LET pinfo == args.tunable_param_catalog[i]
                  v == args.tunable_params[pinfo.name]
                  got == ret.value[pinfo.name]
              IN  CASE pinfo.vartype = "BOOL" ->
                         got = BooleanType(IF v \in {<<"o", "n">>, <<"O", "n">>}
                                           THEN "TRUE" ELSE "FALSE")
                    [] pinfo.vartype = "ENUM" ->
                         got = PyNum(Py(EnumReading(v)[1]))
                    [] pinfo.vartype = "INTEGER" ->
                         got = PyNum(Py(IntegerReading(v, pinfo.unit)[1]))
                    [] OTHER -> got.t = "float"

\* a catalog of an ENUM and an INTEGER read from a size in bytes, and a raw
\* mapping with a key outside the catalog
C3_Witness ==
    /\ ParamsReturned
    /\ ret.kind = "ok"
    /\ <<"z">> \in DOMAIN args.tunable_params
    /\ Len(args.tunable_param_catalog) = 2
    /\ args.tunable_param_catalog[1].vartype = "ENUM"
    /\ args.tunable_param_catalog[2].vartype = "INTEGER"
    /\ args.tunable_params[args.tunable_param_catalog[1].name] = <<"b">>
    /\ args.tunable_params[args.tunable_param_catalog[2].name] = <<"8", "k", "B">>

MetricsReturned == pc = "returned" /\ fn = "preprocess_dbms_metrics"

\* the integer a raw metric value denotes
CountReading(v) ==
    CASE v = <<"1", "2", "0">> -> 120
      [] v = <<"7">> -> 7
      [] v = <<"4", ".", "7">> -> 4

\* the result the claim describes when the sizes are equal
MetricsResult ==
    /\ ret.kind = "ok"
    /\ DOMAIN ret.value = CanonicalNames(args.numeric_metric_catalog)
                              \cup DOMAIN args.external_metrics
    /\ \A i \in DOMAIN args.numeric_metric_catalog :
          LET name == args.numeric_metric_catalog[i].name
          IN  /\ name \in DOMAIN args.numeric_metrics
              /\ ret.value[name] =
                    PyFloat(CountReading(args.numeric_metrics[name]),
                            args.execution_time)
    /\ \A k \in DOMAIN args.external_metrics :
          ret.value[k] = PyFloat(args.external_metrics[k], 1)

MetricsPrecondition ==
    /\ Cardinality(DOMAIN args.numeric_metrics) =
          Len(args.numeric_metric_catalog)
    /\ \A i \in DOMAIN args.numeric_metric_catalog :
          args.numeric_metric_catalog[i].metric_type = "COUNTER"
    /\ DOMAIN args.external_metrics
          \cap CanonicalNames(args.numeric_metric_catalog) = {}

\* C4 as stated: preprocess_dbms_metrics fails with the
\* metric-count-mismatch error whenever the raw mapping and the catalog
\* differ in size; when the sizes are equal, every descriptor is COUNTER and
\* no external key is a catalog name, the result maps each catalog name to
\* int(raw value) / execution_time and each external key to its numeric
\* value, and has no other keys.
C4_MetricsPreprocessed ==
    MetricsReturned =>
        /\ Cardinality(DOMAIN args.numeric_metrics) #
              Len(args.numeric_metric_catalog) =>
                ret = Raise("MetricCountMismatch")
        /\ MetricsPrecondition => MetricsResult

\* C4 amended: the second part holds when, moreover, the raw mapping
\* holds a value for every catalog name.
C4_MetricsPreprocessedKeysPresent ==
    MetricsReturned =>
        /\ Cardinality(DOMAIN args.numeric_metrics) #
              Len(args.numeric_metric_catalog) =>
                ret = Raise("MetricCountMismatch")
        /\ (/\ MetricsPrecondition
            /\ CanonicalNames(args.numeric_metric_catalog)
                  \subseteq DOMAIN args.numeric_metrics) => MetricsResult

\* two COUNTER metrics, one of them with a rate that is no integer, and an
\* external metric
C4_Witness ==
    /\ MetricsReturned
    /\ ret.kind = "ok"
    /\ Len(args.numeric_metric_catalog) = 2
    /\ DOMAIN args.external_metrics = {<<"e">>}
    /\ \E k \in DOMAIN args.numeric_metrics : ret.value[k].den = 2

(***************************************************************************)
(* JSONUtil.loads and DataUtil.aggregate_data                              *)
(*                                                                         *)
(* A serialized blob is the sequence of the members of a JSON object; the  *)
(* values are numbers.  An array of floats is a sequence of PyFloat.       *)
(***************************************************************************)
\* result.pk of the observation at a position: distinct, not monotonic
Pk(i) == (7 * i) % 11

RECURSIVE Loads(_)
\* json.loads with object_pairs_hook=OrderedDict: the last member of a key
\* gives its value
Loads(config_str) ==
    IF config_str = << >> THEN EmptyDict
    ELSE Put(Loads(SubSeq(config_str, 1, Len(config_str) - 1)),
             config_str[Len(config_str)].key,
             config_str[Len(config_str)].value)

\* [data[l] for l in labels] assigned to a row of a float array
RowOf(data, labels) ==
    IF \E j \in DOMAIN labels : labels[j] \notin DOMAIN data
    THEN Raise("KeyError")
    ELSE Ok([j \in DOMAIN labels |-> PyFloat(data[labels[j]], 1)])

\* the two rows of an observation whose sizes have been checked
RowsOf(x, y, pk) ==
    IF x.kind # "ok" THEN x
    ELSE IF y.kind # "ok" THEN y
         ELSE Ok([x |-> x.value, y |-> y.value, pk |-> pk])

\* the body of the loop with the check of the metrics before that of the
\* knobs
AggregateRowMetricsFirst(param_data, metric_data, pk, knob_labels, metric_labels) ==
    IF Cardinality(DOMAIN metric_data) # Len(metric_labels)
    THEN Raise("MetricCountMismatch")
    ELSE IF Cardinality(DOMAIN param_data) # Len(knob_labels)
         THEN Raise("KnobCountMismatch")
         ELSE RowsOf(RowOf(param_data, knob_labels),
                     RowOf(metric_data, metric_labels), pk)

\* the body of the loop over the results
AggregateRow(param_data, metric_data, pk, knob_labels, metric_labels) ==
    IF Cardinality(DOMAIN param_data) # Len(knob_labels)
    THEN Raise("KnobCountMismatch")
    ELSE IF Cardinality(DOMAIN metric_data) # Len(metric_labels)
         THEN Raise("MetricCountMismatch")
         ELSE RowsOf(RowOf(param_data, knob_labels),
                     RowOf(metric_data, metric_labels), pk)

RECURSIVE AggregateRows(_, _, _, _)

\* the rows of an observation are stored, and the rest of the loop
StoreRow(row, matrices, results, knob_labels, metric_labels) ==
    IF row.kind # "ok" THEN row
    ELSE AggregateRows(
             [X_matrix |-> Append(matrices.X_matrix, row.value.x),
              y_matrix |-> Append(matrices.y_matrix, row.value.y),
              rowlabels |-> Append(matrices.rowlabels, row.value.pk),
              X_columnlabels |-> knob_labels,
              y_columnlabels |-> metric_labels],
             Tail(results), knob_labels, metric_labels)

\* for i, result in enumerate(results)
AggregateRows(matrices, results, knob_labels, metric_labels) ==
    IF results = << >> THEN Ok(matrices)
    ELSE StoreRow(AggregateRow(Loads(Head(results).param_data),
                               Loads(Head(results).metric_data),
                               Head(results).pk, knob_labels, metric_labels),
                  matrices, results, knob_labels, metric_labels)

aggregate_data(results, knob_labels, metric_labels) ==
    AggregateRows([X_matrix |-> << >>, y_matrix |-> << >>,
                   rowlabels |-> << >>, X_columnlabels |-> knob_labels,
                   y_columnlabels |-> metric_labels],
                  results, knob_labels, metric_labels)

(***************************************************************************)
(* DataUtil.combine_duplicate_rows                                         *)
(*                                                                         *)
(* Positions count from one here and from zero in the arrays of the code.  *)
(***************************************************************************)
\* the order of the floats
FloatLess(a, b) == a.num * b.den < b.num * a.den

RECURSIVE RowLess(_, _)
\* the order in which np.unique sorts the rows: lexicographic
RowLess(r, q) ==
    IF r = << >> \/ q = << >> THEN FALSE
    ELSE IF Head(r) = Head(q) THEN RowLess(Tail(r), Tail(q))
         ELSE FloatLess(Head(r), Head(q))

RECURSIVE SortRows(_)
\* the distinct rows in increasing order
SortRows(rows) ==
    IF rows = {} THEN << >>
    ELSE LET least == CHOOSE r \in rows : \A q \in rows : ~RowLess(q, r)
         IN  <<least>> \o SortRows(rows \ {least})

\* np.unique(X_matrix, return_index=True, return_inverse=True,
\*           return_counts=True, axis=0)
Unique(X_matrix) ==
    LET X_unique == SortRows({X_matrix[k] : k \in DOMAIN X_matrix})
    IN  [X_unique |-> X_unique,
         idxs |-> [i \in DOMAIN X_unique |->
                     CHOOSE k \in DOMAIN X_matrix :
                        /\ X_matrix[k] = X_unique[i]
                        /\ \A l \in DOMAIN X_matrix :
                              X_matrix[l] = X_unique[i] => k <= l],
         invs |-> [k \in DOMAIN X_matrix |->
                     CHOOSE i \in DOMAIN X_unique : X_unique[i] = X_matrix[k]],
         cts |-> [i \in DOMAIN X_unique |->
                    Cardinality({k \in DOMAIN X_matrix :
                                    X_matrix[k] = X_unique[i]})]]

RECURSIVE DupIdxs(_, _, _)
\* ix[invs == i]: the positions, in increasing order, of the rows of group i
DupIdxs(invs, i, n) ==
    IF n = 0 THEN << >>
    ELSE DupIdxs(invs, i, n - 1) \o (IF invs[n] = i THEN <<n>> ELSE << >>)

RECURSIVE Insert(_, _)
\* a float put at its place in a sorted sequence
Insert(v, sorted) ==
    IF sorted = << >> THEN <<v>>
    ELSE IF FloatLess(Head(sorted), v)
         THEN <<Head(sorted)>> \o Insert(v, Tail(sorted))
         ELSE <<v>> \o sorted

RECURSIVE Sort(_)
Sort(values) ==
    IF values = << >> THEN << >>
    ELSE Insert(Head(values), Sort(Tail(values)))

\* the mean of two floats
Mean(a, b) == PyFloat(a.num * b.den + b.num * a.den, 2 * a.den * b.den)

\* the median that takes the upper of the two middle values
UpperMedianOfSorted(sorted) == sorted[Len(sorted) \div 2 + 1]

\* the middle value, or the mean of the two middle values
MedianOfSorted(sorted) ==
    IF Len(sorted) % 2 = 1 THEN sorted[(Len(sorted) + 1) \div 2]
    ELSE Mean(sorted[Len(sorted) \div 2], sorted[Len(sorted) \div 2 + 1])

\* np.median(y_matrix[dup_idxs, :], axis=0)
Median(y_matrix, dup_idxs) ==
    [j \in DOMAIN y_matrix[1] |->
        MedianOfSorted(Sort([d \in DOMAIN dup_idxs |->
                               y_matrix[dup_idxs[d]][j]]))]

\* the early return giving the sorted rows in place of the rows given
NoDuplicateRowsSorted(X_matrix, y_matrix, rowlabels, X_unique) ==
    Ok([X_matrix |-> X_unique, y_matrix |-> y_matrix, rowlabels |-> rowlabels])

\* return X_matrix, y_matrix, rowlabels
NoDuplicateRows(X_matrix, y_matrix, rowlabels, X_unique) ==
    Ok([X_matrix |-> X_matrix, y_matrix |-> y_matrix, rowlabels |-> rowlabels])

\* the loop over the counts and the return of the combined rows
CombineRows(X_matrix, y_matrix, rowlabels, u) ==
    Ok([X_matrix |-> u.X_unique,
        y_matrix |-> [i \in DOMAIN u.cts |->
                        IF u.cts[i] = 1 THEN y_matrix[u.idxs[i]]
                        ELSE Median(y_matrix,
                                    DupIdxs(u.invs, i, Len(X_matrix)))],
        rowlabels |-> [i \in DOMAIN u.cts |->
                         IF u.cts[i] = 1 THEN <<rowlabels[u.idxs[i]]>>
                         ELSE [d \in DOMAIN DupIdxs(u.invs, i, Len(X_matrix)) |->
                                 rowlabels[DupIdxs(u.invs, i, Len(X_matrix))[d]]]]])

\* the statements after the call of np.unique
AfterUnique(X_matrix, y_matrix, rowlabels, u) ==
    IF Len(u.X_unique) = Len(X_matrix)
    THEN NoDuplicateRows(X_matrix, y_matrix, rowlabels, u.X_unique)
    ELSE CombineRows(X_matrix, y_matrix, rowlabels, u)

combine_duplicate_rows(X_matrix, y_matrix, rowlabels) ==
    AfterUnique(X_matrix, y_matrix, rowlabels, Unique(X_matrix))

(***************************************************************************)
(* The calls of the aggregation specification: aggregate_data over the     *)
(* observations, combine_duplicate_rows over matrices, and                 *)
(* combine_duplicate_rows over the matrices aggregate_data returned.       *)
(***************************************************************************)
Member(key, value) == [key |-> key, value |-> value]

\* the parameter blobs: one or two knobs, in either order, a key given
\* twice, a knob that no label names, and no knob
ParamBlobs ==
    {<<Member("k1", 1)>>,
     <<Member("k1", 1), Member("k2", 2)>>,
     <<Member("k2", 2), Member("k1", 3)>>,
     <<Member("k1", 1), Member("k1", 3)>>,
     <<Member("k1", 1), Member("k3", 2)>>,
     << >>}

MetricBlobs ==
    {<<Member("m1", 5)>>,
     <<Member("m1", 5), Member("m2", 7)>>,
     <<Member("m2", 7), Member("m2", 9)>>}

KnobLabels == {<<"k1">>, <<"k1", "k2">>, <<"k2", "k1">>}
MetricLabels == {<<"m1">>, <<"m1", "m2">>}

\* the observations of a query: the identifier is that of the position
Results ==
    UNION {{[i \in 1..n |-> [pk |-> Pk(i), param_data |-> p[i],
                             metric_data |-> q[i]]] :
              p \in [1..n -> ParamBlobs], q \in [1..n -> MetricBlobs]} :
           n \in 0..MaxResults}

XRows == {<<PyFloat(1, 1), PyFloat(2, 1)>>, <<PyFloat(3, 1), PyFloat(4, 1)>>,
          <<PyFloat(1, 1), PyFloat(4, 1)>>}
YRows == {<<PyFloat(1, 1), PyFloat(4, 1)>>, <<PyFloat(2, 1), PyFloat(2, 1)>>,
          <<PyFloat(4, 1), PyFloat(1, 1)>>}

InitData ==
    /\ pc = "called"
    /\ ret = NoReturn
    /\ \/ /\ fn = "aggregate_data"
          /\ args \in [results : Results, knob_labels : KnobLabels,
                       metric_labels : MetricLabels]
       \/ /\ fn = "combine_duplicate_rows"
          /\ \E n \in 1..MaxRows :
                args \in [X_matrix : [1..n -> XRows],
                          y_matrix : [1..n -> YRows],
                          rowlabels : {[i \in 1..n |-> Pk(i)]}]

AggregateData ==
    /\ pc = "called"
    /\ fn = "aggregate_data"
    /\ ret' = aggregate_data(args.results, args.knob_labels,
                             args.metric_labels)
    /\ pc' = "returned"
    /\ UNCHANGED <<fn, args>>

\* the matrices aggregate_data returned are given to combine_duplicate_rows
CombineAggregated ==
    /\ pc = "returned"
    /\ fn = "aggregate_data"
    /\ ret.kind = "ok"
    /\ Len(ret.value.X_matrix) > 0
    /\ fn' = "combine_duplicate_rows"
    /\ args' = [X_matrix |-> ret.value.X_matrix,
                y_matrix |-> ret.value.y_matrix,
                rowlabels |-> ret.value.rowlabels]
    /\ ret' = NoReturn
    /\ pc' = "called"

CombineDuplicateRows ==
    /\ pc = "called"
    /\ fn = "combine_duplicate_rows"
    /\ ret' = combine_duplicate_rows(args.X_matrix, args.y_matrix,
                                     args.rowlabels)
    /\ pc' = "returned"
    /\ UNCHANGED <<fn, args>>

NextData == AggregateData \/ CombineAggregated \/ CombineDuplicateRows

SpecData == InitData /\ [][NextData]_vars

(***************************************************************************)
(* Claims about the aggregation (checked under SpecData).                  *)
(***************************************************************************)
CombineReturned == pc = "returned" /\ fn = "combine_duplicate_rows"

\* the positions of the input rows equal to a row
RowsEqualTo(row) == {k \in DOMAIN args.X_matrix : args.X_matrix[k] = row}

HasRepeatedRow ==
    \E k, l \in DOMAIN args.X_matrix :
        k # l /\ args.X_matrix[k] = args.X_matrix[l]

\* the r-th smallest of the values that column j of y has at the positions K
KthSmallest(K, j, r) ==
    CHOOSE v \in {args.y_matrix[k][j] : k \in K} :
        /\ Cardinality({k \in K : FloatLess(args.y_matrix[k][j], v)}) < r
        /\ r <= Cardinality({k \in K : ~FloatLess(v, args.y_matrix[k][j])})

\* the median of the values that column j of y has at the positions K
MedianOver(K, j) ==
    LET n == Cardinality(K)
    IN  IF n % 2 = 1 THEN KthSmallest(K, j, (n + 1) \div 2)
        ELSE LET lo == KthSmallest(K, j, n \div 2)
                 hi == KthSmallest(K, j, n \div 2 + 1)
             IN  PyFloat(lo.num * hi.den + hi.num * lo.den,
                         2 * lo.den * hi.den)

\* C5: when X has a repeated row, combine_duplicate_rows returns one output
\* row per distinct row of X, with X', y' and row_labels' of equal length;
\* row_labels'[i] holds exactly the labels of the input rows equal to X'[i],
\* each input label in exactly one group and once; y'[i] is the
\* element-wise median of the y rows of those input rows.
C5_DuplicatesCombined ==
    (CombineReturned /\ HasRepeatedRow) =>
        /\ ret.kind = "ok"
        /\ Len(ret.value.X_matrix) =
              Cardinality({args.X_matrix[k] : k \in DOMAIN args.X_matrix})
        /\ {ret.value.X_matrix[i] : i \in DOMAIN ret.value.X_matrix} =
              {args.X_matrix[k] : k \in DOMAIN args.X_matrix}
        /\ Len(ret.value.y_matrix) = Len(ret.value.X_matrix)
        /\ Len(ret.value.rowlabels) = Len(ret.value.X_matrix)
        /\ \A i \in DOMAIN ret.value.X_matrix :
              LET K == RowsEqualTo(ret.value.X_matrix[i])
                  group == ret.value.rowlabels[i]
              IN  /\ {group[d] : d \in DOMAIN group} =
                        {args.rowlabels[k] : k \in K}
                  /\ Len(group) = Cardinality(K)
                  /\ DOMAIN ret.value.y_matrix[i] = DOMAIN args.y_matrix[1]
                  /\ \A j \in DOMAIN args.y_matrix[1] :
                        ret.value.y_matrix[i][j] = MedianOver(K, j)
        /\ \A k \in DOMAIN args.rowlabels :
              Cardinality({<<i, d>> \in (DOMAIN ret.value.rowlabels)
                                           \X (1..Len(args.rowlabels)) :
                              /\ d \in DOMAIN ret.value.rowlabels[i]
                              /\ ret.value.rowlabels[i][d] = args.rowlabels[k]})
                 = 1

\* a row given twice whose y values have a median that is no integer, beside
\* a row given once
C5_Witness ==
    /\ CombineReturned
    /\ HasRepeatedRow
    /\ Len(ret.value.X_matrix) = 2
    /\ \E i \in DOMAIN ret.value.y_matrix : ret.value.y_matrix[i][1].den = 2

\* C6: when the rows of X are pairwise distinct, combine_duplicate_rows
\* returns X, y and row_labels identical to its inputs: same rows, same row
\* order, same labels.
C6_DistinctRowsUnchanged ==
    (CombineReturned /\ ~HasRepeatedRow) =>
        ret = Ok([X_matrix |-> args.X_matrix, y_matrix |-> args.y_matrix,
                  rowlabels |-> args.rowlabels])

\* distinct rows that are not given in increasing order
C6_Witness ==
    /\ CombineReturned
    /\ ~HasRepeatedRow
    /\ Len(args.X_matrix) >= 2
    /\ RowLess(args.X_matrix[2], args.X_matrix[1])

AggregateReturned == pc = "returned" /\ fn = "aggregate_data"

KnobCountDiffers(i) ==
    Cardinality({args.results[i].param_data[d].key :
                    d \in DOMAIN args.results[i].param_data})
        # Len(args.knob_labels)

MetricCountDiffers(i) ==
    Cardinality({args.results[i].metric_data[d].key :
                    d \in DOMAIN args.results[i].metric_data})
        # Len(args.metric_labels)

\* the value a blob gives to a key: that of its last member with the key
ValueOf(blob, key) ==
    LET last == CHOOSE d \in DOMAIN blob :
                    /\ blob[d].key = key
                    /\ \A e \in DOMAIN blob : blob[e].key = key => e <= d
    IN  blob[last].value

HasKey(blob, key) == \E d \in DOMAIN blob : blob[d].key = key

\* the matrices the claim describes
AggregatedInOrder ==
    /\ ret.kind = "ok"
    /\ Len(ret.value.X_matrix) = Len(args.results)
    /\ Len(ret.value.y_matrix) = Len(args.results)
    /\ Len(ret.value.rowlabels) = Len(args.results)
    /\ \A i \in DOMAIN args.results :
          /\ ret.value.rowlabels[i] = args.results[i].pk
          /\ DOMAIN ret.value.X_matrix[i] = DOMAIN args.knob_labels
          /\ DOMAIN ret.value.y_matrix[i] = DOMAIN args.metric_labels
          /\ \A j \in DOMAIN args.knob_labels :
                /\ HasKey(args.results[i].param_data, args.knob_labels[j])
                /\ ret.value.X_matrix[i][j] =
                      PyFloat(ValueOf(args.results[i].param_data,
                                      args.knob_labels[j]), 1)
          /\ \A j \in DOMAIN args.metric_labels :
                /\ HasKey(args.results[i].metric_data, args.metric_labels[j])
                /\ ret.value.y_matrix[i][j] =
                      PyFloat(ValueOf(args.results[i].metric_data,
                                      args.metric_labels[j]), 1)

\* C7 as stated: aggregate_data fails with the knob-count-mismatch error if
\* an observation's decoded parameter mapping has a size different from
\* len(parameter_labels), with the metric-count-mismatch error if an
\* observation's decoded metric mapping has a size different from
\* len(metric_labels) (either error when both happen); otherwise it returns
\* X, y and row labels with one row per observation in input order.
C7_AggregateOrMismatch ==
    AggregateReturned =>
        LET knobs == \E i \in DOMAIN args.results : KnobCountDiffers(i)
            metrics == \E i \in DOMAIN args.results : MetricCountDiffers(i)
        IN  /\ (knobs /\ ~metrics) => ret = Raise("KnobCountMismatch")
            /\ (metrics /\ ~knobs) => ret = Raise("MetricCountMismatch")
            /\ (knobs /\ metrics) =>
                  ret \in {Raise("KnobCountMismatch"),
                           Raise("MetricCountMismatch")}
            /\ (~knobs /\ ~metrics) => AggregatedInOrder

\* what aggregate_data finds in one observation
Finding(i) ==
    IF KnobCountDiffers(i) THEN "KnobCountMismatch"
    ELSE IF MetricCountDiffers(i) THEN "MetricCountMismatch"
    ELSE IF \/ \E j \in DOMAIN args.knob_labels :
                  ~HasKey(args.results[i].param_data, args.knob_labels[j])
            \/ \E j \in DOMAIN args.metric_labels :
                  ~HasKey(args.results[i].metric_data, args.metric_labels[j])
         THEN "KeyError"
         ELSE "ok"

\* C7 amended: aggregate_data fails at the first observation, in input
\* order, that is malformed: with the knob-count-mismatch error if its
\* parameter mapping has the wrong size, else with the
\* metric-count-mismatch error if its metric mapping has the wrong size,
\* else with a key error if a label is no key of its mappings; with no
\* malformed observation it returns the matrices of the claim.
C7_AggregateOrFirstFinding ==
    AggregateReturned =>
        LET malformed == {i \in DOMAIN args.results : Finding(i) # "ok"}
        IN  IF malformed = {} THEN AggregatedInOrder
            ELSE ret = Raise(Finding(CHOOSE i \in malformed :
                                        \A k \in malformed : i <= k))

\* a well-formed observation followed by one with both sizes wrong
C7_Witness ==
    /\ AggregateReturned
    /\ ret = Raise("KnobCountMismatch")
    /\ Len(args.results) = 2
    /\ Finding(1) = "ok"
    /\ KnobCountDiffers(2) /\ MetricCountDiffers(2)

=============================================================================
